---------------------------- MODULE Spec2Model ----------------------------
(***************************************************************************)
(* Model of src/services/backend_script_api.js (BackendScriptApi): the     *)
(* launcher upsert createOrUpdateLauncher, the transactional createNote,   *)
(* the clone toggles and the debounced log broadcast.                      *)
(*                                                                         *)
(* Strings that the code inspects or builds (ids, titles, label values)    *)
(* are sequences of tokens, so that 'al_' + id, `bx ${icon}`, trim() and   *)
(* the id regular expression are computed, not assumed.  A missing option  *)
(* (undefined) and an empty string are both falsy in every test the code   *)
(* makes, and both are the empty sequence here ("" for opts.type).         *)
(***************************************************************************)
EXTENDS Integers, Sequences, FiniteSets, TLC

VARIABLES
    becca,            \* entity cache: notes, branches, attributes
    db,               \* persistent store: the same three collections
    last,             \* record of the last api call: arguments, outcome, state before it
    logMessages,      \* per api instance: noteId -> pending messages
    logSpacedUpdates, \* per api instance: noteId -> SpacedUpdate timer
    broadcasts,       \* events handed to ws.sendMessageToAllClients, in order
    calls             \* every api.log call so far, in call order

entityVars == <<becca, db>>
logVars == <<logMessages, logSpacedUpdates, broadcasts, calls>>
vars == <<becca, db, last, logMessages, logSpacedUpdates, broadcasts, calls>>

----------------------------------------------------------------------------
(* Collections with repetition: an element |-> the number of entities equal *)
(* to it.  Branch and attribute ids are random, so two entities that agree  *)
(* on every modelled field differ only by id.                               *)

EmptyColl == <<>>

Count(B, e) == IF e \in DOMAIN B THEN B[e] ELSE 0

Insert(B, e) ==
    IF e \in DOMAIN B THEN [B EXCEPT ![e] = @ + 1] ELSE B @@ (e :> 1)

Remove(B, e) ==
    IF e \notin DOMAIN B THEN B
    ELSE IF B[e] > 1 THEN [B EXCEPT ![e] = @ - 1]
    ELSE [x \in DOMAIN B \ {e} |-> B[x]]

RemoveAll(B, S) == [x \in DOMAIN B \ S |-> B[x]]

RECURSIVE SumCounts(_, _)
SumCounts(B, S) ==
    IF S = {} THEN 0
    ELSE LET e == CHOOSE x \in S : TRUE IN B[e] + SumCounts(B, S \ {e})

----------------------------------------------------------------------------
(* Well-known notes *)

RootNoteId == <<"root">>
CodeNoteId == <<"script1">>
lbVisibleLaunchers == <<"_lbVisibleLaunchers">>
lbAvailableLaunchers == <<"_lbAvailableLaunchers">>

LauncherIdPrefix == <<"a", "l", "_">>

Branch(noteId, parentNoteId) == [noteId |-> noteId, parentNoteId |-> parentNoteId]

Attribute(noteId, type, name, value) ==
    [noteId |-> noteId, type |-> type, name |-> name, value |-> value]

Note(title, type, mime) == [title |-> title, type |-> type, mime |-> mime]

\* becca.getNote(noteId): the note, or null when there is none
hasNote(E, noteId) == noteId \in DOMAIN E.notes

\* note.getParentBranches()
getParentBranches(E, noteId) == {b \in DOMAIN E.branches : b.noteId = noteId}

countParentBranches(E, noteId) == SumCounts(E.branches, getParentBranches(E, noteId))

\* note.getOwnedAttributes(type, name)
getOwnedAttributes(E, noteId, type, name) ==
    {a \in DOMAIN E.attributes : a.noteId = noteId /\ a.type = type /\ a.name = name}

countOwnedAttributes(E, noteId, type, name) ==
    SumCounts(E.attributes, getOwnedAttributes(E, noteId, type, name))

InitEntities ==
    [notes |->
        (RootNoteId :> Note(<<"root">>, "text", "text/html"))
        @@ (CodeNoteId :> Note(<<"script">>, "code", "application/javascript;env=backend"))
        @@ (lbVisibleLaunchers :> Note(<<"Visible Launchers">>, "doc", ""))
        @@ (lbAvailableLaunchers :> Note(<<"Available Launchers">>, "doc", "")),
     branches |->
        (Branch(CodeNoteId, RootNoteId) :> 1)
        @@ (Branch(lbVisibleLaunchers, RootNoteId) :> 1)
        @@ (Branch(lbAvailableLaunchers, RootNoteId) :> 1),
     attributes |-> EmptyColl]

----------------------------------------------------------------------------
(* Collaborators of the api whose code is outside backend_script_api.js:    *)
(* modelled from the specification.                                          *)

\* noteService.createNewNote(params): the note and its first branch
createNewNote(E, noteId, parentNoteId, title, type, mime) ==
    [E EXCEPT !.notes = (noteId :> Note(title, type, mime)) @@ @,
              !.branches = Insert(@, Branch(noteId, parentNoteId))]

NewLauncherTitle == <<"Launcher">>

\* specialNotesService.createLauncher({noteId, parentNoteId, launcherType})
createLauncher(E, noteId, parentNoteId, launcherType) ==
    createNewNote(E, noteId, parentNoteId, NewLauncherTitle, "launcher", "")

\* note.title = title; note.save()
saveTitle(E, noteId, title) == [E EXCEPT !.notes[noteId].title = title]

\* branchService.moveBranchToNote(branch, parentNoteId): relocates the branch
moveBranchToNote(E, branch, parentNoteId) ==
    [E EXCEPT !.branches = Insert(Remove(@, branch), Branch(branch.noteId, parentNoteId))]

\* note.setAttribute(type, name, value): updates the attribute of that type
\* and name when the note owns one, creates it otherwise
setAttribute(E, noteId, type, name, value) ==
    LET owned == getOwnedAttributes(E, noteId, type, name) IN
    IF owned = {}
    THEN [E EXCEPT !.attributes = Insert(@, Attribute(noteId, type, name, value))]
    ELSE LET attr == CHOOSE a \in owned : TRUE IN
         IF attr.value = value THEN E
         ELSE [E EXCEPT !.attributes =
                  Insert(Remove(@, attr), Attribute(noteId, type, name, value))]

\* note.removeAttribute(type, name): deletes every attribute of that type and name
removeAttribute(E, noteId, type, name) ==
    [E EXCEPT !.attributes = RemoveAll(@, getOwnedAttributes(E, noteId, type, name))]

setRelation(E, noteId, name, value) == setAttribute(E, noteId, "relation", name, value)
setLabel(E, noteId, name, value) == setAttribute(E, noteId, "label", name, value)
removeLabel(E, noteId, name) == removeAttribute(E, noteId, "label", name)

----------------------------------------------------------------------------
(* createOrUpdateLauncher(opts) *)

Lower == {"a", "b", "c", "d", "e", "f", "g", "h", "i", "j", "k", "l", "m",
          "n", "o", "p", "q", "r", "s", "t", "u", "v", "w", "x", "y", "z"}
Upper == {"A", "B", "C", "D", "E", "F", "G", "H", "I", "J", "K", "L", "M",
          "N", "O", "P", "Q", "R", "S", "T", "U", "V", "W", "X", "Y", "Z"}
Digit == {"0", "1", "2", "3", "4", "5", "6", "7", "8", "9"}

\* the character class [a-z0-9] under the i flag
IsAlnum(c) == c \in Lower \cup Upper \cup Digit

MinIdRun == 6
MaxIdRun == 1000

\* id.match(/[a-z0-9]{6,1000}/i): some substring of 6 to 1000 characters of
\* the class; the expression has no ^ or $ anchor
idMatches(id) ==
    \E i \in 1..Len(id) :
        \E n \in MinIdRun..(IF Len(id) < MaxIdRun THEN Len(id) ELSE MaxIdRun) :
            /\ i + n - 1 <= Len(id)
            /\ \A j \in i..(i + n - 1) : IsAlnum(id[j])

IsSpace(c) == c \in {" ", "\t", "\n"}

RECURSIVE trimStart(_)
trimStart(s) == IF s # <<>> /\ IsSpace(Head(s)) THEN trimStart(Tail(s)) ELSE s

RECURSIVE trimEnd(_)
trimEnd(s) ==
    IF s # <<>> /\ IsSpace(s[Len(s)]) THEN trimEnd(SubSeq(s, 1, Len(s) - 1)) ELSE s

\* String.prototype.trim()
trim(s) == trimEnd(trimStart(s))

LauncherTypes == {"note", "script", "customWidget"}

\* validateLauncher without the checks of the reference that each type needs
validateLauncher_NoReferenceCheck(opts) ==
    IF opts.id = <<>> THEN "ID is a mandatory parameter"
    ELSE IF ~idMatches(opts.id) THEN "ID must be an alphanumeric string at least 6 characters long"
    ELSE IF opts.type = "" THEN "Launcher Type is a mandatory parameter"
    ELSE IF opts.type \notin LauncherTypes THEN "Given launcher type"
    ELSE IF trim(opts.title) = <<>> THEN "Title is a mandatory parameter"
    ELSE ""

\* the checks at the head of createOrUpdateLauncher, in order: the error
\* thrown, or "" when every check passes
validateLauncher(opts) ==
    IF opts.id = <<>> THEN "ID is a mandatory parameter"
    ELSE IF ~idMatches(opts.id) THEN "ID must be an alphanumeric string at least 6 characters long"
    ELSE IF opts.type = "" THEN "Launcher Type is a mandatory parameter"
    ELSE IF opts.type \notin LauncherTypes THEN "Given launcher type"
    ELSE IF trim(opts.title) = <<>> THEN "Title is a mandatory parameter"
    ELSE IF opts.type = "note" /\ opts.targetNoteId = <<>> THEN "targetNoteId is mandatory"
    ELSE IF opts.type = "script" /\ opts.scriptNoteId = <<>> THEN "scriptNoteId is mandatory"
    ELSE IF opts.type = "customWidget" /\ opts.widgetNoteId = <<>> THEN "widgetNoteId is mandatory"
    ELSE ""

launcherParentNoteId(opts) ==
    IF opts.isVisible THEN lbVisibleLaunchers ELSE lbAvailableLaunchers

\* a note id that does not depend on opts.id
launcherNoteId_Fixed(opts) == LauncherIdPrefix \o <<"l", "a", "u", "n", "c", "h">>

\* const noteId = 'al_' + opts.id
launcherNoteId(opts) == LauncherIdPrefix \o opts.id

\* getOrCreateLauncher without the lookup: the launcher is created on every call
getOrCreateLauncher_AlwaysCreate(E, opts) ==
    createLauncher(E, launcherNoteId(opts), launcherParentNoteId(opts), opts.type)

\* becca.getNote(noteId) || specialNotesService.createLauncher({...}).note
getOrCreateLauncher(E, opts) ==
    IF hasNote(E, launcherNoteId(opts)) THEN E
    ELSE createLauncher(E, launcherNoteId(opts), launcherParentNoteId(opts), opts.type)

\* if (launcherNote.title !== opts.title) { ...; launcherNote.save(); }
updateLauncherTitle(E, opts) ==
    IF E.notes[launcherNoteId(opts)].title # opts.title
    THEN saveTitle(E, launcherNoteId(opts), opts.title)
    ELSE E

\* moveLauncher that never relocates the branch
moveLauncher_Never(E, opts) == E

\* if (launcherNote.getParentBranches().length === 1) { move when the parent differs }
moveLauncher(E, opts) ==
    IF countParentBranches(E, launcherNoteId(opts)) = 1
    THEN LET branch == CHOOSE b \in getParentBranches(E, launcherNoteId(opts)) : TRUE IN
         IF branch.parentNoteId # launcherParentNoteId(opts)
         THEN moveBranchToNote(E, branch, launcherParentNoteId(opts))
         ELSE E
    ELSE E

\* the if / else if chain on opts.type; validation leaves no other type
setLauncherRelation(E, opts) ==
    IF opts.type = "note" THEN setRelation(E, launcherNoteId(opts), "target", opts.targetNoteId)
    ELSE IF opts.type = "script" THEN setRelation(E, launcherNoteId(opts), "script", opts.scriptNoteId)
    ELSE setRelation(E, launcherNoteId(opts), "widget", opts.widgetNoteId)

\* setLauncherShortcut without the else branch: an omitted shortcut is left in place
setLauncherShortcut_NoRemove(E, opts) ==
    IF opts.keyboardShortcut # <<>>
    THEN setLabel(E, launcherNoteId(opts), "keyboardShortcut", opts.keyboardShortcut)
    ELSE E

setLauncherShortcut(E, opts) ==
    IF opts.keyboardShortcut # <<>>
    THEN setLabel(E, launcherNoteId(opts), "keyboardShortcut", opts.keyboardShortcut)
    ELSE removeLabel(E, launcherNoteId(opts), "keyboardShortcut")

\* `bx ${opts.icon}`
iconClass(icon) == <<"bx", " ">> \o icon

setLauncherIcon(E, opts) ==
    IF opts.icon # <<>>
    THEN setLabel(E, launcherNoteId(opts), "iconClass", iconClass(opts.icon))
    ELSE removeLabel(E, launcherNoteId(opts), "iconClass")

\* the body of createOrUpdateLauncher after validation, statement by statement
createOrUpdateLauncher(E, opts) ==
    LET S1 == {getOrCreateLauncher(E, opts)}
        S2 == {updateLauncherTitle(E1, opts) : E1 \in S1}
        S3 == {moveLauncher(E2, opts) : E2 \in S2}
        S4 == {setLauncherRelation(E3, opts) : E3 \in S3}
        S5 == {setLauncherShortcut(E4, opts) : E4 \in S4}
        S6 == {setLauncherIcon(E5, opts) : E5 \in S5}
    IN CHOOSE E6 \in S6 : TRUE

NoArgs == [none |-> TRUE]

\* api.createOrUpdateLauncher(opts): throws before any mutation, or
\* reconciles the launcher and returns {note}
CreateOrUpdateLauncher(opts) ==
    \E error \in {validateLauncher(opts)} :
    \E E \in {IF error = "" THEN createOrUpdateLauncher(becca, opts) ELSE becca} :
        /\ becca' = E
        /\ db' = E
        /\ last' = [op |-> "createOrUpdateLauncher", args |-> opts, pre |-> becca,
                    error |-> error,
                    ret |-> IF error = "" THEN launcherNoteId(opts) ELSE <<>>,
                    follows |-> /\ last.op = "createOrUpdateLauncher"
                                /\ last.error = ""
                                /\ last.args = opts]
        /\ UNCHANGED logVars

LauncherSteps == 6

\* the statements of the body, in order
launcherStep(k, E, opts) ==
    CASE k = 1 -> getOrCreateLauncher(E, opts)
      [] k = 2 -> updateLauncherTitle(E, opts)
      [] k = 3 -> moveLauncher(E, opts)
      [] k = 4 -> setLauncherRelation(E, opts)
      [] k = 5 -> setLauncherShortcut(E, opts)
      [] k = 6 -> setLauncherIcon(E, opts)

\* whether statement k calls a collaborator that writes: createLauncher,
\* save, moveBranchToNote, setRelation, setLabel or removeLabel
launcherStepCalls(k, E, opts) ==
    CASE k = 1 -> ~hasNote(E, launcherNoteId(opts))
      [] k = 2 -> E.notes[launcherNoteId(opts)].title # opts.title
      [] k = 3 -> /\ countParentBranches(E, launcherNoteId(opts)) = 1
                  /\ \E b \in getParentBranches(E, launcherNoteId(opts)) :
                         b.parentNoteId # launcherParentNoteId(opts)
      [] OTHER -> TRUE

CollaboratorError == "Error thrown by a collaborator"

\* the body when the collaborator called by statement failAt throws: nothing
\* in createOrUpdateLauncher catches, and no transaction encloses the
\* statements, so what the earlier statements saved stays saved
RECURSIVE runLauncherSteps(_, _, _, _)
runLauncherSteps(k, E, opts, failAt) ==
    IF k > LauncherSteps THEN [E |-> E, error |-> ""]
    ELSE IF k = failAt /\ launcherStepCalls(k, E, opts)
    THEN [E |-> E, error |-> CollaboratorError]
    ELSE CHOOSE r \in {runLauncherSteps(k + 1, E1, opts, failAt) :
                          E1 \in {launcherStep(k, E, opts)}} : TRUE

\* api.createOrUpdateLauncher(opts) when a collaborator throws during the
\* call made by statement failAt
CreateOrUpdateLauncherInterrupted(opts, failAt) ==
    /\ validateLauncher(opts) = ""
    /\ \E result \in {runLauncherSteps(1, becca, opts, failAt)} :
        /\ result.error # ""
        /\ becca' = result.E
        /\ db' = result.E
        /\ last' = [op |-> "createOrUpdateLauncher", args |-> opts, pre |-> becca,
                    error |-> result.error, ret |-> <<>>, follows |-> FALSE]
    /\ UNCHANGED logVars

----------------------------------------------------------------------------
(* Clone toggles.  cloningService is outside backend_script_api.js and is  *)
(* modelled from the specification; the api binds its three functions.     *)
(* The display prefix of a new branch is not modelled.                     *)

hasBranch(E, noteId, parentNoteId) == Count(E.branches, Branch(noteId, parentNoteId)) > 0

cloning_ensureNoteIsPresentInParent(E, noteId, parentNoteId) ==
    IF hasBranch(E, noteId, parentNoteId) THEN E
    ELSE [E EXCEPT !.branches = Insert(@, Branch(noteId, parentNoteId))]

cloning_ensureNoteIsAbsentFromParent(E, noteId, parentNoteId) ==
    IF hasBranch(E, noteId, parentNoteId)
    THEN [E EXCEPT !.branches = Remove(@, Branch(noteId, parentNoteId))]
    ELSE E

cloning_toggleNoteInParent(E, present, noteId, parentNoteId) ==
    IF present THEN cloning_ensureNoteIsPresentInParent(E, noteId, parentNoteId)
    ELSE cloning_ensureNoteIsAbsentFromParent(E, noteId, parentNoteId)

\* ensureNoteIsPresentInParent bound to a function that adds a branch on every call
ensureNoteIsPresentInParent_AlwaysInsert(E, noteId, parentNoteId) ==
    [E EXCEPT !.branches = Insert(@, Branch(noteId, parentNoteId))]

\* this.ensureNoteIsPresentInParent = cloningService.ensureNoteIsPresentInParent
ensureNoteIsPresentInParent(E, noteId, parentNoteId) ==
    cloning_ensureNoteIsPresentInParent(E, noteId, parentNoteId)

\* this.ensureNoteIsAbsentFromParent = cloningService.ensureNoteIsAbsentFromParent
ensureNoteIsAbsentFromParent(E, noteId, parentNoteId) ==
    cloning_ensureNoteIsAbsentFromParent(E, noteId, parentNoteId)

\* toggleNoteInParent bound to the function that only adds
toggleNoteInParent_BoundToPresent(E, present, noteId, parentNoteId) ==
    cloning_ensureNoteIsPresentInParent(E, noteId, parentNoteId)

\* this.toggleNoteInParent = cloningService.toggleNoteInParent
toggleNoteInParent(E, present, noteId, parentNoteId) ==
    cloning_toggleNoteInParent(E, present, noteId, parentNoteId)

cloneCallRecord(op, present, noteId, parentNoteId) ==
    [op |-> op,
     args |-> [present |-> present, noteId |-> noteId, parentNoteId |-> parentNoteId],
     pre |-> becca, error |-> "", ret |-> <<>>,
     follows |-> /\ last.op = op
                 /\ last.args.present
                 /\ last.args.noteId = noteId
                 /\ last.args.parentNoteId = parentNoteId]

\* returns the new or existing branch
EnsureNoteIsPresentInParent(noteId, parentNoteId) ==
    /\ hasNote(becca, noteId)
    /\ hasNote(becca, parentNoteId)
    /\ becca' = ensureNoteIsPresentInParent(becca, noteId, parentNoteId)
    /\ db' = becca'
    /\ last' = [cloneCallRecord("ensureNoteIsPresentInParent", TRUE, noteId, parentNoteId)
                   EXCEPT !.ret = IF hasBranch(becca', noteId, parentNoteId)
                                  THEN Branch(noteId, parentNoteId) ELSE <<>>]
    /\ UNCHANGED logVars

EnsureNoteIsAbsentFromParent(noteId, parentNoteId) ==
    /\ hasNote(becca, noteId)
    /\ hasNote(becca, parentNoteId)
    /\ becca' = ensureNoteIsAbsentFromParent(becca, noteId, parentNoteId)
    /\ db' = becca'
    /\ last' = cloneCallRecord("ensureNoteIsAbsentFromParent", FALSE, noteId, parentNoteId)
    /\ UNCHANGED logVars

ToggleNoteInParent(present, noteId, parentNoteId) ==
    /\ hasNote(becca, noteId)
    /\ hasNote(becca, parentNoteId)
    /\ becca' = toggleNoteInParent(becca, present, noteId, parentNoteId)
    /\ db' = becca'
    /\ last' = cloneCallRecord("toggleNoteInParent", present, noteId, parentNoteId)
    /\ UNCHANGED logVars

----------------------------------------------------------------------------
(* createNote(parentNoteId, title, content, extraOptions).  The content of  *)
(* a note is stored outside the three collections and is not modelled.      *)

AttributeTypes == {"label", "relation"}

\* attributeService.createAttribute(attribute): the new state, or the error
\* thrown for an attribute that cannot be saved
createAttribute(E, attribute) ==
    IF attribute.type \in AttributeTypes
    THEN [E |-> [E EXCEPT !.attributes = Insert(@, attribute)], error |-> ""]
    ELSE [E |-> E, error |-> "Invalid attribute type"]

\* sql.transactional(func): the outcome of func when it returns; when it
\* throws, the store is rolled back and the cache is loaded again from it
transactional(store, outcome) ==
    IF outcome.error = ""
    THEN [db |-> outcome.E, becca |-> outcome.E, error |-> ""]
    ELSE [db |-> store, becca |-> store, error |-> outcome.error]

\* createNoteType that does not look at the parent
createNoteType_NoInheritance(parentNote, json) == IF json THEN "code" ELSE "text"

\* code note type can be inherited, otherwise text is default; json wins
createNoteType(parentNote, json) ==
    IF json THEN "code"
    ELSE IF parentNote.type = "code" THEN "code" ELSE "text"

createNoteMime(parentNote, json) ==
    IF json THEN "application/json"
    ELSE IF parentNote.type = "code" THEN parentNote.mime ELSE "text/html"

\* extraOptions after lines 242-255: parentNoteId and title are set, and type
\* and mime are assigned whatever the caller put there
createNoteOptions(extraOptions, parentNoteId, title, parentNote) ==
    [extraOptions EXCEPT !.parentNoteId = parentNoteId,
                         !.title = title,
                         !.type = createNoteType(parentNote, extraOptions.json),
                         !.mime = createNoteMime(parentNote, extraOptions.json)]

\* for (const attr of extraOptions.attributes || []) createAttribute({...})
RECURSIVE createAttributes(_, _, _)
createAttributes(E, noteId, attributes) ==
    IF attributes = <<>> THEN [E |-> E, error |-> ""]
    ELSE LET attr == Head(attributes)
             created == createAttribute(E, Attribute(noteId, attr.type, attr.name, attr.value))
         IN IF created.error # "" THEN created
            ELSE createAttributes(created.E, noteId, Tail(attributes))

\* the function handed to sql.transactional: the note, its branch, its attributes
createNoteBody(E, noteId, params) ==
    LET extraOptions == createNoteOptions(params, params.parentNoteId, params.title,
                                          E.notes[params.parentNoteId])
    IN createAttributes(
           createNewNote(E, noteId, extraOptions.parentNoteId, extraOptions.title,
                         extraOptions.type, extraOptions.mime),
           noteId, extraOptions.attributes)

\* createNote whose body runs outside any transaction
createNoteInTransaction_Unwrapped(E, noteId, params) ==
    LET outcome == createNoteBody(E, noteId, params) IN
    [db |-> outcome.E, becca |-> outcome.E, error |-> outcome.error]

\* return sql.transactional(() => {...})
createNoteInTransaction(E, noteId, params) ==
    transactional(E, createNoteBody(E, noteId, params))

\* createNote that takes a missing parent for a text note
createNote_MissingParentAsText(E, noteId, params) ==
    IF hasNote(E, params.parentNoteId)
    THEN createNoteInTransaction(E, noteId, params)
    ELSE transactional(E,
             createAttributes(
                 createNewNote(E, noteId, params.parentNoteId, params.title,
                               "text", "text/html"),
                 noteId, params.attributes))

\* const parentNote = becca.getNote(parentNoteId); parentNote.type throws
\* when the parent does not resolve, before anything is created
createNote(E, noteId, params) ==
    IF hasNote(E, params.parentNoteId)
    THEN createNoteInTransaction(E, noteId, params)
    ELSE [db |-> E, becca |-> E, error |-> "TypeError: Cannot read properties of null"]

\* noteService draws a random id for the new note: ids are opaque, so the
\* first unused one of a pool stands for any
NewNoteIds == << <<"new1">>, <<"new2">> >>

unusedIds(E) == {k \in 1..Len(NewNoteIds) : ~hasNote(E, NewNoteIds[k])}

nextNoteId(E) == NewNoteIds[CHOOSE k \in unusedIds(E) : \A j \in unusedIds(E) : k <= j]

\* the extraOptions of a caller that gives json and attributes only
Options(json, attributes) ==
    [json |-> json, type |-> "", mime |-> "", attributes |-> attributes]

\* the arguments of a call: the caller's extraOptions (type and mime are ""
\* when omitted), the parent and the title, and the id the new note will get
callParams(noteId, parentNoteId, title, extraOptions) ==
    [newNoteId |-> noteId, parentNoteId |-> parentNoteId, title |-> title,
     json |-> extraOptions.json, type |-> extraOptions.type, mime |-> extraOptions.mime,
     attributes |-> extraOptions.attributes]

\* api.createNote: parentNote.type throws when the parent does not resolve
CreateNote(parentNoteId, title, extraOptions) ==
    /\ unusedIds(becca) # {}
    /\ \E noteId \in {nextNoteId(becca)} :
       \E params \in {callParams(noteId, parentNoteId, title, extraOptions)} :
       \E result \in {createNote(becca, noteId, params)} :
           /\ becca' = result.becca
           /\ db' = result.db
           /\ last' = [op |-> "createNote", args |-> params, pre |-> becca,
                       error |-> result.error,
                       ret |-> IF result.error = "" THEN noteId ELSE <<>>,
                       follows |-> FALSE]
    /\ UNCHANGED logVars

\* sql.transactional(func) called while a transaction is open joins it: what
\* func did stays in the cache, and nothing is committed before the
\* enclosing transaction ends
joinTransaction(committed, inner) ==
    [db |-> committed, becca |-> inner.becca, error |-> inner.error]

\* api.transactional bound to a function that runs func outside any transaction
apiTransactional_Unwrapped(store, outcome) ==
    [db |-> outcome.E, becca |-> outcome.E, error |-> outcome.error]

\* this.transactional = sql.transactional
apiTransactional(store, outcome) == transactional(store, outcome)

UnitOfWorkError == "Error thrown by the unit of work"

\* the function a script hands to api.transactional: one createNote call,
\* then either a return or a throw; the script does not catch
unitOfWork(store, E, noteId, params, fails) ==
    LET inner == joinTransaction(store, createNote(E, noteId, params))
    IN [E |-> inner.becca,
        error |-> IF inner.error # "" THEN inner.error
                  ELSE IF fails THEN UnitOfWorkError ELSE ""]

\* api.transactional(() => { api.createNote(...); if (fails) throw ... })
TransactionalCreateNote(parentNoteId, title, extraOptions, fails) ==
    /\ unusedIds(becca) # {}
    /\ \E noteId \in {nextNoteId(becca)} :
       \E params \in {callParams(noteId, parentNoteId, title, extraOptions)} :
       \E result \in {apiTransactional(db, unitOfWork(db, becca, noteId, params, fails))} :
           /\ becca' = result.becca
           /\ db' = result.db
           /\ last' = [op |-> "transactional",
                       args |-> params @@ [fails |-> fails],
                       pre |-> becca,
                       error |-> result.error,
                       ret |-> IF result.error = "" THEN noteId ELSE <<>>,
                       follows |-> FALSE]
    /\ UNCHANGED logVars

----------------------------------------------------------------------------
(* api.log(message).  Every BackendScriptApi instance has its own           *)
(* logMessages and logSpacedUpdates objects, both keyed by the id of the    *)
(* instance's start note.  SpacedUpdate is outside backend_script_api.js:   *)
(* its timer is modelled from the specification.                            *)

Apis == {"api1", "api2", "api3"}

OtherCodeNoteId == <<"script2">>

\* apiParams.startNote of each instance: two executions of one script, and
\* one of another script
startNote(api) == IF api = "api3" THEN OtherCodeNoteId ELSE CodeNoteId

StartNoteIds == {startNote(api) : api \in Apis}

DebounceInterval == 100
TickStep == DebounceInterval \div 2

\* new SpacedUpdate(updater, updateInterval)
newSpacedUpdate(updateInterval) ==
    [scheduled |-> FALSE, remaining |-> 0, updateInterval |-> updateInterval]

\* spacedUpdate.scheduleUpdate(): starts the timer unless one is running
scheduleUpdate(spacedUpdate) ==
    IF spacedUpdate.scheduled THEN spacedUpdate
    ELSE [spacedUpdate EXCEPT !.scheduled = TRUE, !.remaining = spacedUpdate.updateInterval]

\* the timer of a SpacedUpdate has run out
isDue(spacedUpdate) == spacedUpdate.scheduled /\ spacedUpdate.remaining = 0

\* this.logMessages[noteId] = this.logMessages[noteId] || []
pendingMessages(messagesOfApi, noteId) ==
    IF noteId \in DOMAIN messagesOfApi THEN messagesOfApi[noteId] ELSE <<>>

\* log that schedules the update without keeping the message
pushLogMessage_Skip(messagesOfApi, noteId, message) ==
    (noteId :> pendingMessages(messagesOfApi, noteId)) @@ messagesOfApi

\* log that starts the list again on every call
pushLogMessage_Reset(messagesOfApi, noteId, message) ==
    (noteId :> <<message>>) @@ messagesOfApi

\* ...; this.logMessages[noteId].push(message)
pushLogMessage(messagesOfApi, noteId, message) ==
    (noteId :> Append(pendingMessages(messagesOfApi, noteId), message)) @@ messagesOfApi

\* this.logSpacedUpdates[noteId] = this.logSpacedUpdates[noteId] || new SpacedUpdate(..., 100)
spacedUpdateOf(updatesOfApi, noteId) ==
    IF noteId \in DOMAIN updatesOfApi THEN updatesOfApi[noteId]
    ELSE newSpacedUpdate(DebounceInterval)

\* the updater that drops the messages instead of sending them
takeLogMessages_Drop(messagesOfApi, noteId) ==
    [messages |-> <<>>, rest |-> [messagesOfApi EXCEPT ![noteId] = <<>>]]

\* the updater that leaves the sent messages in the list
takeLogMessages_KeepSent(messagesOfApi, noteId) ==
    [messages |-> messagesOfApi[noteId], rest |-> messagesOfApi]

\* const messages = this.logMessages[noteId]; this.logMessages[noteId] = []
takeLogMessages(messagesOfApi, noteId) ==
    [messages |-> messagesOfApi[noteId], rest |-> [messagesOfApi EXCEPT ![noteId] = <<>>]]

MaxCalls == 3

Messages == {"m1", "m2"}

\* log whose lists and timers belong to the start note, not to the instance:
\* the second instance of a script uses those of the first
Log_SharedByStartNote(api, message) ==
    /\ Len(calls) < MaxCalls
    /\ \E noteId \in {startNote(api)} :
       \E owner \in {IF api = "api2" THEN "api1" ELSE api} :
        /\ logMessages' = [logMessages EXCEPT
               ![owner] = pushLogMessage(logMessages[owner], noteId, message)]
        /\ logSpacedUpdates' = [logSpacedUpdates EXCEPT
               ![owner] = (noteId :> scheduleUpdate(spacedUpdateOf(logSpacedUpdates[owner], noteId))) @@ @]
        /\ calls' = Append(calls, [api |-> api, noteId |-> noteId, message |-> message])
    /\ UNCHANGED <<becca, db, last, broadcasts>>

\* api.log(message) on one instance
Log(api, message) ==
    /\ Len(calls) < MaxCalls
    /\ \E noteId \in {startNote(api)} :
        /\ logMessages' = [logMessages EXCEPT
               ![api] = pushLogMessage(logMessages[api], noteId, message)]
        /\ logSpacedUpdates' = [logSpacedUpdates EXCEPT
               ![api] = (noteId :> scheduleUpdate(spacedUpdateOf(logSpacedUpdates[api], noteId))) @@ @]
        /\ calls' = Append(calls, [api |-> api, noteId |-> noteId, message |-> message])
    /\ UNCHANGED <<becca, db, last, broadcasts>>

\* an updater that sends its own messages and clears the pending list of
\* every instance and key
Flush_ClearAll(api, noteId) ==
    /\ noteId \in DOMAIN logSpacedUpdates[api]
    /\ isDue(logSpacedUpdates[api][noteId])
    /\ logMessages' = [a \in Apis |-> [k \in DOMAIN logMessages[a] |-> <<>>]]
    /\ broadcasts' = Append(broadcasts,
           [type |-> "api-log-messages", noteId |-> noteId,
            messages |-> logMessages[api][noteId],
            sender |-> api, at |-> Len(calls), orphan |-> ~hasNote(becca, noteId)])
    /\ logSpacedUpdates' = [logSpacedUpdates EXCEPT ![api][noteId].scheduled = FALSE]
    /\ UNCHANGED <<becca, db, last, calls>>

\* the timer of one SpacedUpdate fires and runs the updater, which hands the
\* pending messages to ws.sendMessageToAllClients.  sender, at and orphan
\* record the instance, the number of log calls made so far and whether the
\* note of the key is gone from the cache; they are not sent.
Flush(api, noteId) ==
    /\ noteId \in DOMAIN logSpacedUpdates[api]
    /\ isDue(logSpacedUpdates[api][noteId])
    /\ \E taken \in {takeLogMessages(logMessages[api], noteId)} :
        /\ logMessages' = [logMessages EXCEPT ![api] = taken.rest]
        /\ broadcasts' = Append(broadcasts,
               [type |-> "api-log-messages", noteId |-> noteId, messages |-> taken.messages,
                sender |-> api, at |-> Len(calls), orphan |-> ~hasNote(becca, noteId)])
    /\ logSpacedUpdates' = [logSpacedUpdates EXCEPT
           ![api][noteId].scheduled = FALSE]
    /\ UNCHANGED <<becca, db, last, calls>>

\* time passes by TickStep; a timer that is due fires before time moves on
Tick ==
    /\ \E api \in Apis : \E noteId \in DOMAIN logSpacedUpdates[api] :
           logSpacedUpdates[api][noteId].scheduled
    /\ \A api \in Apis : \A noteId \in DOMAIN logSpacedUpdates[api] :
           ~isDue(logSpacedUpdates[api][noteId])
    /\ logSpacedUpdates' =
           [api \in Apis |->
               [noteId \in DOMAIN logSpacedUpdates[api] |->
                   LET u == logSpacedUpdates[api][noteId] IN
                   IF u.scheduled
                   THEN [u EXCEPT !.remaining = IF @ > TickStep THEN @ - TickStep ELSE 0]
                   ELSE u]]
    /\ UNCHANGED <<becca, db, last, logMessages, broadcasts, calls>>

\* a collaborator outside the api deletes a note: the note, its branches and
\* its attributes leave the cache and the store.  The api instances keep the
\* BNote object of their start note, and with it the noteId.
deleteNote(E, noteId) ==
    [notes |-> [n \in DOMAIN E.notes \ {noteId} |-> E.notes[n]],
     branches |-> RemoveAll(E.branches, {b \in DOMAIN E.branches : b.noteId = noteId}),
     attributes |-> RemoveAll(E.attributes, {a \in DOMAIN E.attributes : a.noteId = noteId})]

DeleteNote(noteId) ==
    /\ hasNote(becca, noteId)
    /\ becca' = deleteNote(becca, noteId)
    /\ db' = becca'
    /\ UNCHANGED <<last, logMessages, logSpacedUpdates, broadcasts, calls>>

----------------------------------------------------------------------------
(* Initial state and specifications *)

Init ==
    /\ becca = InitEntities
    /\ db = InitEntities
    /\ last = [op |-> "none", args |-> NoArgs, pre |-> InitEntities,
               error |-> "", ret |-> <<>>, follows |-> FALSE]
    /\ logMessages = [api \in Apis |-> <<>>]
    /\ logSpacedUpdates = [api \in Apis |-> <<>>]
    /\ broadcasts = <<>>
    /\ calls = <<>>

IdAlnum == <<"a", "b", "c", "1", "2", "F">>
IdShort == <<"a", "b">>
IdSuffixed == <<"a", "b", "c", "d", "e", "f", "!">>
IdBroken == <<"a", "b", "c", "-", "e", "f">>

TitleA == <<"A">>
Shortcut == <<"ctrl+e">>
Icon == <<"bx-time">>

\* inputs of the launcher specification: every call is valid
LauncherOpts ==
    [id : {IdAlnum}, type : LauncherTypes, title : {TitleA}, isVisible : BOOLEAN,
     icon : {<<>>, Icon}, keyboardShortcut : {<<>>, Shortcut},
     targetNoteId : {RootNoteId, CodeNoteId}, scriptNoteId : {CodeNoteId},
     widgetNoteId : {CodeNoteId}]

LauncherNoteIds == {LauncherIdPrefix \o id : id \in {IdAlnum, IdSuffixed}}

CloneParents == {RootNoteId, lbVisibleLaunchers, lbAvailableLaunchers}

MaxAttributes == 2

MissingNoteId == <<"gone">>

AttributeInputs ==
    {[type |-> "label", name |-> "color", value |-> <<"red">>],
     [type |-> "tag", name |-> "color", value |-> <<"red">>]}

AttributeLists == UNION {[1..n -> AttributeInputs] : n \in 0..MaxAttributes}

NextCreate ==
    \E parentNoteId \in {RootNoteId, CodeNoteId, MissingNoteId}, json \in BOOLEAN,
       attributes \in AttributeLists :
        CreateNote(parentNoteId, TitleA, Options(json, attributes))

SpecCreate == Init /\ [][NextCreate]_vars

\* inputs of the options specification: extraOptions with and without json,
\* type and mime, under parents of three types and under the notes created
OptionInputs ==
    [json : BOOLEAN, type : {"", "book", "code"}, mime : {"", "text/x-custom"},
     attributes : {<<>>}]

OptionParents == {RootNoteId, CodeNoteId, lbVisibleLaunchers, NewNoteIds[1]}

NextOptions ==
    \E parentNoteId \in OptionParents, extraOptions \in OptionInputs :
        CreateNote(parentNoteId, TitleA, extraOptions)

SpecOptions == Init /\ [][NextOptions]_vars

\* createNote on its own and inside an enclosing api.transactional
NextTransactional ==
    \E parentNoteId \in {RootNoteId, MissingNoteId}, json \in BOOLEAN,
       attributes \in AttributeLists :
        \/ CreateNote(parentNoteId, TitleA, Options(json, attributes))
        \/ \E fails \in BOOLEAN :
               TransactionalCreateNote(parentNoteId, TitleA, Options(json, attributes), fails)

SpecTransactional == Init /\ [][NextTransactional]_vars

CloneNotes == {CodeNoteId, lbVisibleLaunchers}

NextClone ==
    \E noteId \in CloneNotes, parentNoteId \in CloneParents :
        \/ EnsureNoteIsPresentInParent(noteId, parentNoteId)
        \/ EnsureNoteIsAbsentFromParent(noteId, parentNoteId)
        \/ \E present \in BOOLEAN : ToggleNoteInParent(present, noteId, parentNoteId)

SpecClone == Init /\ [][NextClone]_vars

NextLauncher ==
    \/ \E opts \in LauncherOpts : CreateOrUpdateLauncher(opts)
    \/ \E present \in BOOLEAN, noteId \in LauncherNoteIds, parentNoteId \in CloneParents :
           ToggleNoteInParent(present, noteId, parentNoteId)

SpecLauncher == Init /\ [][NextLauncher]_vars

TitleB == <<"B">>

\* inputs of the interruption specification: valid calls, each of which can
\* also be cut short by a collaborator that throws
InterruptOpts ==
    [id : {IdAlnum}, type : {"note", "script"}, title : {TitleA, TitleB},
     isVisible : BOOLEAN, icon : {<<>>, Icon}, keyboardShortcut : {<<>>},
     targetNoteId : {RootNoteId}, scriptNoteId : {CodeNoteId}, widgetNoteId : {<<>>}]

NextInterrupt ==
    \E opts \in InterruptOpts :
        \/ CreateOrUpdateLauncher(opts)
        \/ \E failAt \in 1..LauncherSteps : CreateOrUpdateLauncherInterrupted(opts, failAt)

SpecInterrupt == Init /\ [][NextInterrupt]_vars

IdLowerCase == <<"a", "b", "c", "1", "2", "f">>

\* inputs of the frame specification: two launchers whose ids differ in the
\* case of one letter
FrameIds == {IdAlnum, IdLowerCase}

FrameOpts ==
    [id : FrameIds, type : {"note", "script"}, title : {TitleA},
     isVisible : BOOLEAN, icon : {<<>>, Icon}, keyboardShortcut : {<<>>},
     targetNoteId : {RootNoteId}, scriptNoteId : {CodeNoteId}, widgetNoteId : {<<>>}]

NextFrame ==
    \/ \E opts \in FrameOpts : CreateOrUpdateLauncher(opts)
    \/ \E present \in BOOLEAN, id \in FrameIds :
           ToggleNoteInParent(present, LauncherIdPrefix \o id, RootNoteId)

SpecFrame == Init /\ [][NextFrame]_vars

\* inputs of the validation specification: every way a field can be missing
\* or malformed, in every combination
ValidationOpts ==
    [id : {<<>>, IdShort, IdAlnum},
     type : {"", "separator", "note", "script", "customWidget"},
     title : {<<>>, <<" ">>, TitleA}, isVisible : {FALSE},
     icon : {<<>>}, keyboardShortcut : {<<>>},
     targetNoteId : {<<>>, RootNoteId}, scriptNoteId : {<<>>, CodeNoteId},
     widgetNoteId : {<<>>, CodeNoteId}]

NextValidation == \E opts \in ValidationOpts : CreateOrUpdateLauncher(opts)

SpecValidation == Init /\ [][NextValidation]_vars

\* inputs of the id specification: ids with a character outside [a-z0-9]
IdOpts ==
    [id : {IdShort, IdBroken, IdSuffixed}, type : LauncherTypes, title : {TitleA},
     isVisible : BOOLEAN, icon : {<<>>, Icon}, keyboardShortcut : {<<>>, Shortcut},
     targetNoteId : {RootNoteId}, scriptNoteId : {CodeNoteId},
     widgetNoteId : {CodeNoteId}]

NextId == \E opts \in IdOpts : CreateOrUpdateLauncher(opts)

SpecId == Init /\ [][NextId]_vars

\* inputs of the branch specification: the five operations that create,
\* move or delete branches, on one launcher and one created note
BranchLauncherOpts ==
    [id : {IdAlnum}, type : {"note"}, title : {TitleA}, isVisible : BOOLEAN,
     icon : {<<>>}, keyboardShortcut : {<<>>},
     targetNoteId : {RootNoteId}, scriptNoteId : {<<>>}, widgetNoteId : {<<>>}]

BranchNotes == {LauncherIdPrefix \o IdAlnum, NewNoteIds[1]}

NextBranches ==
    \/ \E noteId \in BranchNotes, parentNoteId \in CloneParents :
           \/ EnsureNoteIsPresentInParent(noteId, parentNoteId)
           \/ EnsureNoteIsAbsentFromParent(noteId, parentNoteId)
           \/ \E present \in BOOLEAN : ToggleNoteInParent(present, noteId, parentNoteId)
    \/ \E parentNoteId \in {RootNoteId, lbVisibleLaunchers} :
           CreateNote(parentNoteId, TitleA, Options(FALSE, <<>>))
    \/ \E opts \in BranchLauncherOpts : CreateOrUpdateLauncher(opts)

SpecBranches == Init /\ [][NextBranches]_vars

NextLog ==
    \/ \E api \in Apis, message \in Messages : Log(api, message)
    \/ \E api \in Apis, noteId \in StartNoteIds : Flush(api, noteId)
    \/ Tick

SpecLog == Init /\ [][NextLog]_vars

\* the log with the deletion of the start note, under fairness of the timers:
\* time keeps passing and a timer that is due fires
NextLogLive ==
    \/ \E api \in {"api1", "api2"}, message \in Messages : Log(api, message)
    \/ \E api \in Apis, noteId \in StartNoteIds : Flush(api, noteId)
    \/ Tick
    \/ DeleteNote(CodeNoteId)

TimerFairness ==
    /\ WF_vars(Tick)
    /\ \A api \in Apis : \A noteId \in StartNoteIds : WF_vars(Flush(api, noteId))

SpecLogLive == Init /\ [][NextLogLive]_vars /\ TimerFairness

----------------------------------------------------------------------------
(* Claims about createOrUpdateLauncher *)

LauncherCallOk == last.op = "createOrUpdateLauncher" /\ last.error = ""

RelationOfType(type) ==
    IF type = "note" THEN "target" ELSE IF type = "script" THEN "script" ELSE "widget"

countTypedRelations(E, noteId) ==
    countOwnedAttributes(E, noteId, "relation", "target")
    + countOwnedAttributes(E, noteId, "relation", "script")
    + countOwnedAttributes(E, noteId, "relation", "widget")

\* C1: a successful createOrUpdateLauncher(s) returns 'al_' + s.id, and when
\* it directly follows a successful call with the identical s it leaves the
\* notes, branches and attributes exactly as the first call left them.
C1_Idempotent ==
    LauncherCallOk =>
        /\ last.ret = LauncherIdPrefix \o last.args.id
        /\ last.follows => (becca = last.pre /\ db = last.pre)

C1_Witness ==
    /\ LauncherCallOk
    /\ last.follows
    /\ hasNote(becca, last.ret)
    /\ countTypedRelations(becca, last.ret) > 0

\* what the claim counts as an invalid input
InvalidLauncherInput(opts) ==
    \/ opts.id = <<>>
    \/ Len(opts.id) < 6
    \/ opts.type = ""
    \/ opts.type \notin {"note", "script", "customWidget"}
    \/ \A i \in 1..Len(opts.title) : opts.title[i] = " "
    \/ opts.type = "note" /\ opts.targetNoteId = <<>>
    \/ opts.type = "script" /\ opts.scriptNoteId = <<>>
    \/ opts.type = "customWidget" /\ opts.widgetNoteId = <<>>

\* C6: a createOrUpdateLauncher call with an invalid input (missing or short
\* id, missing or unsupported type, blank title, missing reference of the
\* type) fails with an error and leaves notes, branches and attributes as
\* they were.
C6_ValidationPrecedesMutation ==
    (last.op = "createOrUpdateLauncher" /\ InvalidLauncherInput(last.args)) =>
        /\ last.error # ""
        /\ becca = last.pre
        /\ db = last.pre

C6_Witness ==
    /\ last.op = "createOrUpdateLauncher"
    /\ last.args.id = IdAlnum
    /\ last.args.type = "script"
    /\ last.args.scriptNoteId = <<>>
    /\ last.args.targetNoteId # <<>>
    /\ last.error # ""
    /\ hasNote(becca, LauncherIdPrefix \o IdAlnum)

\* C7: a createOrUpdateLauncher call whose id contains a character that is
\* not alphanumeric fails with a validation error, and no launcher is
\* created or modified.
C7_NonAlnumIdRejected ==
    (/\ last.op = "createOrUpdateLauncher"
     /\ \E i \in 1..Len(last.args.id) : ~IsAlnum(last.args.id[i])) =>
        /\ last.error # ""
        /\ becca = last.pre

\* C8: after a successful call that supplies keyboardShortcut the launcher
\* has a keyboardShortcut label with that value, and after one that omits it
\* the launcher has no keyboardShortcut label; likewise for icon and the
\* iconClass label, whose value is 'bx ' followed by the icon.
C8_FieldsByPresence ==
    LauncherCallOk =>
        /\ IF last.args.keyboardShortcut # <<>>
           THEN Count(becca.attributes, Attribute(last.ret, "label", "keyboardShortcut",
                                                  last.args.keyboardShortcut)) >= 1
           ELSE countOwnedAttributes(becca, last.ret, "label", "keyboardShortcut") = 0
        /\ IF last.args.icon # <<>>
           THEN Count(becca.attributes, Attribute(last.ret, "label", "iconClass",
                                                  <<"bx", " ">> \o last.args.icon)) >= 1
           ELSE countOwnedAttributes(becca, last.ret, "label", "iconClass") = 0

\* a call that omits both fields on a launcher that carried both labels
C8_Witness ==
    /\ LauncherCallOk
    /\ last.args.keyboardShortcut = <<>>
    /\ last.args.icon = <<>>
    /\ countOwnedAttributes(last.pre, last.ret, "label", "keyboardShortcut") = 1
    /\ countOwnedAttributes(last.pre, last.ret, "label", "iconClass") = 1
    /\ countOwnedAttributes(becca, last.ret, "label", "keyboardShortcut") = 0

\* C9: after a successful call the launcher carries exactly one relation
\* among target, script and widget, the one of the type given in that call,
\* and at most one keyboardShortcut label and at most one iconClass label.
C9_ExactlyOneTypedRelation ==
    LauncherCallOk =>
        /\ countTypedRelations(becca, last.ret) = 1
        /\ countOwnedAttributes(becca, last.ret, "relation", RelationOfType(last.args.type)) = 1
        /\ countOwnedAttributes(becca, last.ret, "label", "keyboardShortcut") <= 1
        /\ countOwnedAttributes(becca, last.ret, "label", "iconClass") <= 1

Container(isVisible) == IF isVisible THEN lbVisibleLaunchers ELSE lbAvailableLaunchers

\* C10 as stated: after every successful call the launcher has a branch
\* under the container chosen by opts.isVisible and none under the other.
C10_AlwaysInChosenContainer ==
    LauncherCallOk =>
        /\ hasBranch(becca, last.ret, Container(last.args.isVisible))
        /\ ~hasBranch(becca, last.ret, Container(~last.args.isVisible))

\* the launcher enters the call with exactly one parent branch, or is created by it
SingleParentBefore ==
    hasNote(last.pre, last.ret) => countParentBranches(last.pre, last.ret) = 1

\* C10 as amended: after a successful call on a launcher that the call
\* created or that had exactly one parent branch, the launcher has exactly
\* one branch and it is under the container chosen by opts.isVisible; a
\* launcher with no or several parent branches keeps its branches as they were.
C10_MovedWhenSingleParent ==
    LauncherCallOk =>
        IF SingleParentBefore
        THEN /\ countParentBranches(becca, last.ret) = 1
             /\ Count(becca.branches, Branch(last.ret, Container(last.args.isVisible))) = 1
        ELSE becca.branches = last.pre.branches

\* a launcher whose only branch was under the root is moved to the visible container
C10_Witness ==
    /\ LauncherCallOk
    /\ last.args.isVisible
    /\ hasNote(last.pre, last.ret)
    /\ countParentBranches(last.pre, last.ret) = 1
    /\ hasBranch(last.pre, last.ret, RootNoteId)
    /\ hasBranch(becca, last.ret, lbVisibleLaunchers)

\* C18: when createOrUpdateLauncher fails at a step after validation, none
\* of the mutations made by the earlier steps of the call persist: cache and
\* store are as before the call.
C18_AtomicReconciliation ==
    (last.op = "createOrUpdateLauncher" /\ last.error # "") =>
        /\ becca = last.pre
        /\ db = last.pre

\* everything but a note, its parent branches and its own attributes
restOf(E, noteId) ==
    [notes |-> [n \in DOMAIN E.notes \ {noteId} |-> E.notes[n]],
     branches |-> RemoveAll(E.branches, {b \in DOMAIN E.branches : b.noteId = noteId}),
     attributes |-> RemoveAll(E.attributes, {a \in DOMAIN E.attributes : a.noteId = noteId})]

\* C20: a successful createOrUpdateLauncher call with id A changes only the
\* note 'al_' + A, its parent branches and its own attributes: every other
\* note, branch and attribute is as before the call, in the cache and in
\* the store; and a call with another id resolves to another note.
C20_ReconciliationFrame ==
    LauncherCallOk =>
        /\ restOf(becca, last.ret) = restOf(last.pre, last.ret)
        /\ restOf(db, last.ret) = restOf(last.pre, last.ret)
        /\ \A opts \in FrameOpts :
               opts.id # last.args.id => launcherNoteId(opts) # last.ret

\* a call changes one launcher while the launcher of the other id exists,
\* with a relation of its own and a second branch
C20_Witness ==
    /\ LauncherCallOk
    /\ last.args.id = IdAlnum
    /\ becca # last.pre
    /\ hasNote(last.pre, last.ret)
    /\ hasNote(last.pre, LauncherIdPrefix \o IdLowerCase)
    /\ countTypedRelations(becca, LauncherIdPrefix \o IdLowerCase) > 0
    /\ countParentBranches(becca, LauncherIdPrefix \o IdLowerCase) = 2

----------------------------------------------------------------------------
(* Claims about createNote and the clone toggles *)

attributesOfNote(E, noteId) == {a \in DOMAIN E.attributes : a.noteId = noteId}

occurrences(attributes, attr) ==
    Cardinality({i \in 1..Len(attributes) : attributes[i] = attr})

NotePresent(E, noteId, params) ==
    /\ hasNote(E, noteId)
    /\ Count(E.branches, Branch(noteId, params.parentNoteId)) = 1
    /\ \A i \in 1..Len(params.attributes) :
           Count(E.attributes,
                 Attribute(noteId, params.attributes[i].type, params.attributes[i].name,
                           params.attributes[i].value))
               = occurrences(params.attributes, params.attributes[i])

NoteAbsent(E, noteId) ==
    /\ ~hasNote(E, noteId)
    /\ getParentBranches(E, noteId) = {}
    /\ attributesOfNote(E, noteId) = {}

\* C2: when createNote fails, the new note, its branch and the attributes
\* created before the failure are neither in the store nor in the cache;
\* when it succeeds, the note, its branch and every listed attribute are in
\* both.
C2_AllOrNothing ==
    last.op = "createNote" =>
        IF last.error # ""
        THEN NoteAbsent(becca, last.args.newNoteId) /\ NoteAbsent(db, last.args.newNoteId)
        ELSE /\ NotePresent(becca, last.args.newNoteId, last.args)
             /\ NotePresent(db, last.args.newNoteId, last.args)

\* the second attribute of the list fails after the first was created
C2_Witness ==
    /\ last.op = "createNote"
    /\ last.error = "Invalid attribute type"
    /\ Len(last.args.attributes) = 2
    /\ last.args.attributes[1].type = "label"
    /\ last.args.attributes[2].type = "tag"
    /\ hasNote(becca, last.args.parentNoteId)

CreateNoteOk == last.op = "createNote" /\ last.error = ""

\* the type and mime the claim gives for a parent and a json flag
expectedType(parentNote, json) ==
    IF json \/ parentNote.type = "code" THEN "code" ELSE "text"

expectedMime(parentNote, json) ==
    IF json THEN "application/json"
    ELSE IF parentNote.type = "code" THEN parentNote.mime ELSE "text/html"

C17_SuppliedTypeAndMime ==
    CreateNoteOk =>
        /\ becca.notes[last.ret].type
               = IF last.args.type # "" THEN last.args.type ELSE "text"
        /\ becca.notes[last.ret].mime
               = IF last.args.mime # "" THEN last.args.mime ELSE "text/html"

\* C15: createNote with a parentNoteId that does not resolve to a note fails
\* with an error that reaches the caller and creates no note, no branch and
\* no attribute: store and cache are as before the call.
C15_MissingParentFails ==
    (last.op = "createNote" /\ ~hasNote(last.pre, last.args.parentNoteId)) =>
        /\ last.error # ""
        /\ last.ret = <<>>
        /\ NoteAbsent(becca, last.args.newNoteId)
        /\ NoteAbsent(db, last.args.newNoteId)
        /\ becca = last.pre
        /\ db = last.pre

\* a json note with two attributes is asked for under a missing parent,
\* after another note was created
C15_Witness ==
    /\ last.op = "createNote"
    /\ last.args.parentNoteId = MissingNoteId
    /\ ~hasNote(last.pre, MissingNoteId)
    /\ last.args.json
    /\ Len(last.args.attributes) = 2
    /\ last.error # ""
    /\ hasNote(becca, NewNoteIds[1])

\* C14: when createNote is called inside an enclosing api.transactional and
\* the enclosing unit of work fails after createNote has returned, the note,
\* its branch and its attributes are neither in the store nor in the cache,
\* which are as before the unit; when the unit commits, all of them are in
\* both.
C14_JoinsEnclosingScope ==
    last.op = "transactional" =>
        IF last.error # ""
        THEN /\ NoteAbsent(becca, last.args.newNoteId)
             /\ NoteAbsent(db, last.args.newNoteId)
             /\ becca = last.pre
             /\ db = last.pre
        ELSE /\ NotePresent(becca, last.args.newNoteId, last.args)
             /\ NotePresent(db, last.args.newNoteId, last.args)

\* the unit of work throws after createNote has created a note with two labels
C14_Witness ==
    /\ last.op = "transactional"
    /\ last.error = UnitOfWorkError
    /\ last.args.fails
    /\ Len(last.args.attributes) = 2
    /\ \A i \in 1..2 : last.args.attributes[i].type = "label"
    /\ hasNote(becca, last.args.parentNoteId)
    /\ hasNote(becca, NewNoteIds[1])

\* C5: toggleNoteInParent(false, note, parent) right after
\* toggleNoteInParent(true, note, parent) leaves no branch between the two,
\* and toggleNoteInParent(true, note, parent) right after itself leaves
\* exactly one.
C5_ToggleSymmetry ==
    (last.op = "toggleNoteInParent" /\ last.follows) =>
        Count(becca.branches, Branch(last.args.noteId, last.args.parentNoteId))
            = IF last.args.present THEN 1 ELSE 0

\* toggled on where there was no branch, then off again
C5_Witness ==
    /\ last.op = "toggleNoteInParent"
    /\ last.follows
    /\ ~last.args.present
    /\ hasBranch(last.pre, last.args.noteId, last.args.parentNoteId)
    /\ ~hasBranch(InitEntities, last.args.noteId, last.args.parentNoteId)
    /\ ~hasBranch(becca, last.args.noteId, last.args.parentNoteId)

\* C11: in every state reached by ensureNoteIsPresentInParent,
\* ensureNoteIsAbsentFromParent, toggleNoteInParent, createNote and
\* createOrUpdateLauncher calls there is at most one branch for each
\* (noteId, parentNoteId) pair; ensureNoteIsPresentInParent on an existing
\* pair changes nothing and returns the existing branch, and
\* ensureNoteIsAbsentFromParent on a pair with no branch changes nothing.
C11_OneBranchPerPair ==
    /\ \A b \in DOMAIN becca.branches : becca.branches[b] <= 1
    /\ \A b \in DOMAIN db.branches : db.branches[b] <= 1
    /\ (/\ last.op = "ensureNoteIsPresentInParent"
        /\ hasBranch(last.pre, last.args.noteId, last.args.parentNoteId)) =>
            /\ becca = last.pre
            /\ db = last.pre
            /\ last.ret = Branch(last.args.noteId, last.args.parentNoteId)
    /\ (/\ last.op = "ensureNoteIsAbsentFromParent"
        /\ ~hasBranch(last.pre, last.args.noteId, last.args.parentNoteId)) =>
            /\ becca = last.pre
            /\ db = last.pre

\* ensureNoteIsPresentInParent on a pair that already has its branch, for a
\* launcher that has been cloned under the root
C11_Witness ==
    /\ last.op = "ensureNoteIsPresentInParent"
    /\ last.args.noteId = LauncherIdPrefix \o IdAlnum
    /\ last.args.parentNoteId = RootNoteId
    /\ hasBranch(last.pre, last.args.noteId, RootNoteId)
    /\ countParentBranches(becca, last.args.noteId) = 2
    /\ hasNote(becca, NewNoteIds[1])

----------------------------------------------------------------------------
(* Claims about api.log *)

messagesOf(callSeq) == [i \in 1..Len(callSeq) |-> callSeq[i].message]

\* the messages logged for a note id, through any instance, in call order
callsFor(callSeq, noteId) ==
    messagesOf(SelectSeq(callSeq, LAMBDA c : c.noteId = noteId))

\* the messages logged for a note id through one instance, in call order
callsOf(callSeq, api, noteId) ==
    messagesOf(SelectSeq(callSeq, LAMBDA c : c.api = api /\ c.noteId = noteId))

RECURSIVE payloads(_)
payloads(events) ==
    IF events = <<>> THEN <<>> ELSE Head(events).messages \o payloads(Tail(events))

eventsFor(noteId) == SelectSeq(broadcasts, LAMBDA e : e.noteId = noteId)

eventsOf(api, noteId) ==
    SelectSeq(broadcasts, LAMBDA e : e.sender = api /\ e.noteId = noteId)

Latest(S) == IF S = {} THEN 0 ELSE CHOOSE x \in S : \A y \in S : y <= x

\* the number of log calls made when the previous event for the note id was sent
previousFor(j) ==
    Latest({broadcasts[i].at : i \in {i \in 1..(j - 1) :
                broadcasts[i].noteId = broadcasts[j].noteId}})

\* the same for the previous event of the same instance
previousOf(j) ==
    Latest({broadcasts[i].at : i \in {i \in 1..(j - 1) :
                /\ broadcasts[i].noteId = broadcasts[j].noteId
                /\ broadcasts[i].sender = broadcasts[j].sender}})

\* C3 as stated: every broadcast event for a key carries exactly the
\* messages logged for that key since the previous event for the key, in
\* call order, and there is at least one.
C3_OneEventPerKeyAndInterval ==
    \A j \in 1..Len(broadcasts) :
        /\ broadcasts[j].messages # <<>>
        /\ broadcasts[j].messages =
               callsFor(SubSeq(calls, previousFor(j) + 1, broadcasts[j].at),
                        broadcasts[j].noteId)

\* C3 as amended: every broadcast event carries exactly the messages logged
\* through the instance that sends it since that instance's previous event
\* for the key, in call order, and there is at least one.
C3_OneEventPerInstanceAndInterval ==
    \A j \in 1..Len(broadcasts) :
        /\ broadcasts[j].messages # <<>>
        /\ broadcasts[j].messages =
               callsOf(SubSeq(calls, previousOf(j) + 1, broadcasts[j].at),
                       broadcasts[j].sender, broadcasts[j].noteId)

\* one event carries two messages logged through one instance while another
\* instance with the same start note has logged in between
C3_Witness ==
    \E j \in 1..Len(broadcasts) :
        /\ Len(broadcasts[j].messages) >= 2
        /\ broadcasts[j].messages[1] # broadcasts[j].messages[2]
        /\ \E i \in 1..Len(calls) :
               /\ calls[i].noteId = broadcasts[j].noteId
               /\ calls[i].api # broadcasts[j].sender
               /\ i < broadcasts[j].at

apisOf(noteId) == {api \in Apis : startNote(api) = noteId}

\* the pending messages of a key: those of the instances that log for it
\* (here at most two), one instance after the other, in either order
pendingFor(noteId) ==
    IF Cardinality(apisOf(noteId)) = 1
    THEN {pendingMessages(logMessages[a], noteId) : a \in apisOf(noteId)}
    ELSE {pendingMessages(logMessages[a], noteId) \o pendingMessages(logMessages[b], noteId) :
              <<a, b>> \in {p \in apisOf(noteId) \X apisOf(noteId) : p[1] # p[2]}}

\* C4 as stated: for every key, the payloads of the events delivered for
\* the key followed by the key's pending messages are the messages logged
\* for the key, in call order.
C4_NothingLostPerKey ==
    \A noteId \in StartNoteIds :
        \E pending \in pendingFor(noteId) :
            payloads(eventsFor(noteId)) \o pending = callsFor(calls, noteId)

\* C4 as amended: for every instance and key, the payloads of the events the
\* instance has sent for the key followed by the instance's pending messages
\* are the messages logged through the instance, in call order.
C4_NothingLostPerInstance ==
    \A api \in Apis : \A noteId \in StartNoteIds :
        payloads(eventsOf(api, noteId)) \o pendingMessages(logMessages[api], noteId)
            = callsOf(calls, api, noteId)

\* an instance has sent one event and has logged again since
C4_Witness ==
    \E api \in Apis :
        /\ eventsOf(api, startNote(api)) # <<>>
        /\ pendingMessages(logMessages[api], startNote(api)) # <<>>
        /\ Len(callsOf(calls, api, startNote(api))) >= 2

\* the k-th message logged through an instance has been delivered in an event
\* tagged with the instance's key
delivered(api, k) ==
    /\ Len(payloads(eventsOf(api, startNote(api)))) >= k
    /\ payloads(eventsOf(api, startNote(api)))[k] = callsOf(calls, api, startNote(api))[k]

\* C12: under fairness of the timers every message passed to log is
\* eventually delivered in a broadcast event for its key, and a scheduled
\* flush is never cancelled: a timer stops being scheduled only by firing,
\* which sends an event, also when the start note has been deleted.
C12_EventuallyDelivered ==
    /\ \A api \in Apis : \A k \in 1..MaxCalls :
           (Len(callsOf(calls, api, startNote(api))) >= k) ~> delivered(api, k)
    /\ [][\A api \in Apis : \A noteId \in DOMAIN logSpacedUpdates[api] :
              (logSpacedUpdates[api][noteId].scheduled
               /\ ~logSpacedUpdates'[api][noteId].scheduled) =>
                  /\ Len(broadcasts') = Len(broadcasts) + 1
                  /\ broadcasts'[Len(broadcasts')].noteId = noteId
                  /\ broadcasts'[Len(broadcasts')].sender = api]_vars

\* an event with messages is delivered for a key whose note was deleted
\* before the timer fired
C12_Witness ==
    \E j \in 1..Len(broadcasts) :
        /\ broadcasts[j].orphan
        /\ broadcasts[j].messages # <<>>
        /\ delivered(broadcasts[j].sender, 1)

timerOf(updates, api, noteId) ==
    IF noteId \in DOMAIN updates[api] THEN <<updates[api][noteId]>> ELSE <<>>

\* C13: a timer fire for a key k1 leaves the pending sequence and the timer
\* state of every other key k2 unchanged, and the event it delivers is
\* tagged with k1 and contains only messages that were logged under k1.
C13_KeysIndependent ==
    [][Len(broadcasts') = Len(broadcasts) + 1 =>
          \E e \in {broadcasts'[Len(broadcasts')]} :
              /\ e.type = "api-log-messages"
              /\ e.noteId \in StartNoteIds
              /\ \A api \in Apis : \A k2 \in StartNoteIds \ {e.noteId} :
                     /\ pendingMessages(logMessages'[api], k2)
                            = pendingMessages(logMessages[api], k2)
                     /\ timerOf(logSpacedUpdates', api, k2) = timerOf(logSpacedUpdates, api, k2)
              /\ \A i \in 1..Len(e.messages) :
                     \E c \in 1..Len(calls) :
                         /\ calls[c].noteId = e.noteId
                         /\ calls[c].message = e.messages[i]]_vars

\* an event for one key was sent while another key had a pending message
\* with a different text and a running timer, both still in place
C13_Witness ==
    \E j \in 1..Len(broadcasts) :
        /\ broadcasts[j].noteId = CodeNoteId
        /\ broadcasts[j].messages = <<"m1">>
        /\ eventsFor(OtherCodeNoteId) = <<>>
        /\ pendingMessages(logMessages["api3"], OtherCodeNoteId) = <<"m2">>
        /\ timerOf(logSpacedUpdates, "api3", OtherCodeNoteId) # <<>>
        /\ logSpacedUpdates["api3"][OtherCodeNoteId].scheduled
        /\ calls[1].api = "api3"

\* C19: every 'api-log-messages' event carries at least one message; no
\* timer fire finds the pending sequence of its key empty, because a timer
\* runs only while its key has a pending message.
C19_NoEmptyBatch ==
    /\ \A j \in 1..Len(broadcasts) :
           broadcasts[j].type = "api-log-messages" => broadcasts[j].messages # <<>>
    /\ \A api \in Apis : \A noteId \in DOMAIN logSpacedUpdates[api] :
           logSpacedUpdates[api][noteId].scheduled =>
               pendingMessages(logMessages[api], noteId) # <<>>

\* an instance's timer has fired twice for its key: the second fire came
\* after the first had emptied the pending sequence
C19_Witness ==
    \E api \in Apis :
        /\ Len(eventsOf(api, startNote(api))) = 2
        /\ pendingMessages(logMessages[api], startNote(api)) = <<>>
        /\ ~logSpacedUpdates[api][startNote(api)].scheduled

\* the instances whose messages for a key have all been sent
flushedApis(noteId) ==
    {api \in apisOf(noteId) :
        /\ callsOf(calls, api, noteId) # <<>>
        /\ pendingMessages(logMessages[api], noteId) = <<>>}

\* C21: pending messages and timers belong to one instance.  A flush of an
\* instance delivers exactly the messages pending in that instance, empties
\* that list and leaves the lists and timers of every other instance as
\* they were; the messages of two instances with the same start note are
\* never in one event, so a note has at least one event for each instance
\* whose messages have been sent.
C21_BuffersPerInstance ==
    /\ [](\A noteId \in StartNoteIds :
             /\ Len(eventsFor(noteId)) >= Cardinality(flushedApis(noteId))
             /\ \A api \in apisOf(noteId) :
                    Len(payloads(eventsOf(api, noteId)))
                        + Len(pendingMessages(logMessages[api], noteId))
                    = Len(callsOf(calls, api, noteId)))
    /\ [][Len(broadcasts') = Len(broadcasts) + 1 =>
             \E e \in {broadcasts'[Len(broadcasts')]} :
                 /\ e.messages = pendingMessages(logMessages[e.sender], e.noteId)
                 /\ pendingMessages(logMessages'[e.sender], e.noteId) = <<>>
                 /\ \A api \in Apis \ {e.sender} :
                        /\ logMessages'[api] = logMessages[api]
                        /\ logSpacedUpdates'[api] = logSpacedUpdates[api]]_vars

\* two instances with the same start note log one message each before any
\* timer fires: the note gets two events, one from each instance
C21_Witness ==
    /\ Len(calls) >= 2
    /\ calls[1].api = "api1"
    /\ calls[2].api = "api2"
    /\ Len(eventsFor(CodeNoteId)) = 2
    /\ broadcasts[1].at = 2
    /\ broadcasts[2].at = 2
    /\ broadcasts[1].sender # broadcasts[2].sender
    /\ broadcasts[1].messages = <<calls[1].message>>
    /\ broadcasts[2].messages = <<calls[2].message>>

=============================================================================
